---- MODULE Spec2Model ----
(***************************************************************************)
(* Gateway session state machine of discord-rs (src/src/connection.rs):    *)
(* AsyncConnection (handshake, recv_event, resume, reconnect, shutdown,    *)
(* drop) running concurrently with the keepalive_async heartbeat workers.  *)
(*                                                                         *)
(* The caller-driven read path advances one await point at a time (cpc);   *)
(* every spawned keepalive_async task is a record of `workers` and takes   *)
(* its own steps.  Inbound frames are chosen by the environment at every   *)
(* read.  Variables marked "history" record what happened, for the         *)
(* properties; the program does not read them.                             *)
(***************************************************************************)
EXTENDS Integers, Sequences, FiniteSets, TLC

\* ------------------------------------------------------------- bounds
MaxReads == 5       \* inbound frames read over a run
LiveReads == 4      \* inbound frames read over a run checked for liveness
MaxConns == 3       \* transports opened by connect_async over a run
MaxSeq == 2         \* sequence numbers carried by inbound frames: 1..MaxSeq
MaxSid == 2         \* session ids carried by Ready: 1..MaxSid
MaxInterval == 1    \* heartbeat intervals carried by Hello: 1..MaxInterval
MaxPending == 1     \* a caller-facing send is posted only below this queue length
LiveVals == 1       \* sequence numbers and session ids in runs checked for recovery liveness
MaxQueue == 2       \* messages queued for a worker run on its own

\* ------------------------------------------------- program constants
ChanCap == 10       \* tokio::sync::mpsc::channel(10)
NoResumeCode == 4006

Null == 0 - 1       \* Option::None / JSON null

Seqs == 1 .. MaxSeq
SessionIds == 1 .. MaxSid
Intervals == 1 .. MaxInterval

VARIABLES
  cpc,        \* where the caller-driven path of the client stands
  conn,       \* the AsyncConnection `self`
  hs,         \* the running (or last) __connect: its locals and counts (history)
  rc,         \* the running (or last) reconnect(): its counts (history)
  rs,         \* the running resume(): its locals
  call,       \* the running (or last) recv_event(): what it observed and called (history)
  workers,    \* every keepalive_async task spawned so far
  nconn,      \* transports opened so far; transport ids are 1..nconn
  nread,      \* frames read so far
  lastRead,   \* the frame (or error) the last step read, if any (history)
  lastWrite,  \* the frame the last step wrote to a write half, if any (history)
  ret         \* the last value returned to the caller (history)

vars == <<cpc, conn, hs, rc, rs, call, workers, nconn, nread, lastRead, lastWrite, ret>>

\* ---------------------------------------------------- inbound frames
\* GatewayEvent as decoded by recv_json(GatewayEvent::decode), and its errors.
Frame(op, n, ev, sid) == [op |-> op, n |-> n, ev |-> ev, sid |-> sid]

GatewayEvent ==
  {Frame("Hello", i, "-", Null) : i \in Intervals}
    \cup {Frame("Dispatch", s, "Ready", id) : s \in Seqs, id \in SessionIds}
    \cup {Frame("Dispatch", s, e, Null) : s \in Seqs, e \in {"Resumed", "Other"}}
    \cup {Frame("Heartbeat", s, "-", Null) : s \in Seqs}
    \cup {Frame(o, Null, "-", Null) : o \in {"HeartbeatAck", "Reconnect", "InvalidateSession"}}

\* Error::Closed(num, _): no code, an ordinary code, the must-not-resume code.
CloseCodes == {Null, 1000, NoResumeCode}

RecvError ==
  {Frame("ErrTungstenite", Null, "-", Null), Frame("ErrOther", Null, "-", Null)}
    \cup {Frame("ErrClosed", c, "-", Null) : c \in CloseCodes}

RecvResult == GatewayEvent \cup RecvError

\* The step read nothing.
NoRead == Frame("-", Null, "-", Null)

\* The error a `recv_json(..).await?` or an unexpected frame ends a handshake with.
ErrorOf(f) ==
  CASE f.op = "ErrTungstenite" -> "Tungstenite"
    [] f.op = "ErrClosed" -> "Closed"
    [] f.op = "ErrOther" -> "Other"
    [] OTHER -> "Protocol"

\* --------------------------------------------- control messages (Status)
Msg(k, op, d) == [k |-> k, op |-> op, d |-> d]
SendMessage(op, d) == Msg("SendMessage", op, d)
Sequence(seq) == Msg("Sequence", 0, seq)
ChangeInterval(i) == Msg("ChangeInterval", 0, i)
ChangeSenderV2(t) == Msg("ChangeSenderV2", 0, t)
Aborted == Msg("Aborted", 0, Null)

OpHeartbeat == 1
OpIdentify == 2
OpPresence == 3
OpResume == 6
OpClose == Null     \* Message::Close(None), not a JSON payload

Identify == SendMessage(OpIdentify, Null)

\* ------------------------------------------------------------ workers
\* A keepalive_async task: where it stands, its locals, its channel (queue, and
\* whether a Sender is left).  told is history: the value of the last Sequence
\* message it dequeued, if any.
Worker(interval, t) ==
  [pc |-> "jitter", sender |-> t, queue |-> <<>>, last_sequence |-> 0,
   interval |-> interval, txAlive |-> TRUE, exit |-> "none", told |-> Null]

WorkerIds == 1 .. Len(workers)

\* The receiving end of a worker's channel is gone once the task has returned.
RxClosed(ws, w) == ws[w].pc = "done"

\* keepalive_channel.send(m).await: queued; an error (dropped by `let _`) when
\* the receiver is gone.
Send(ws, w, m) ==
  IF RxClosed(ws, w) THEN ws
  ELSE [ws EXCEPT ![w].queue = Append(@, m)]

\* keepalive_channel.send(m) without .await: the future is built and dropped
\* unpolled, so nothing reaches the channel.
SendUnpolled(ws, w, m) == ws

\* send(..).await suspends while the channel is full.
CanSend(w) == RxClosed(workers, w) \/ Len(workers[w].queue) < ChanCap

\* The last Sender of a worker's channel is dropped.
DropSender(ws, w) ==
  IF w = 0 THEN ws ELSE [ws EXCEPT ![w].txAlive = FALSE]

Client == 0

\* A frame put on write half t by the client or by a worker.
Written(t, by, via, op, d, sid) ==
  [t |-> t, by |-> by, via |-> via, op |-> op, d |-> d, sid |-> sid]

\* The step wrote nothing.
NoWrite == Written(0, Client, "-", Null, Null, Null)

\* --------------------------------------------------------------- state
\* observed, lastSeen, lastDispatch and lastSeqFrame are history: whether a
\* Ready or Resumed was observed since the last InvalidateSession, the sequence
\* of the last Dispatch processed (handshake, recv_event or resume), that of the
\* last Dispatch recv_event processed, and that of the last Dispatch or
\* Heartbeat frame processed.
NoConn == [ch |-> 0, rx |-> 0, session_id |-> Null, last_sequence |-> 0,
           observed |-> FALSE, lastSeen |-> Null, lastDispatch |-> Null,
           lastSeqFrame |-> Null]
NoHs == [from |-> "-", url |-> "-", t |-> 0, interval |-> 0, w |-> 0, reads |-> 0,
         idents |-> 0, inv |-> 0, res |-> "-"]
NoRc == [abort |-> FALSE, old |-> 0, hs |-> 0, rest |-> 0, fails |-> 0]
NoRs == [t |-> 0, sid |-> Null]
NoCall == [trig |-> "-", code |-> Null, sid0 |-> Null, seq0 |-> Null,
           resumed |-> FALSE, reconn |-> FALSE, rserr |-> "-"]
Ret(kind, ev, via, seq) == [kind |-> kind, ev |-> ev, via |-> via, seq |-> seq]
NoRet == Ret("-", "-", "-", Null)

Init ==
  /\ cpc = "start"
  /\ conn = NoConn
  /\ hs = NoHs
  /\ rc = NoRc
  /\ rs = NoRs
  /\ call = NoCall
  /\ workers = <<>>
  /\ nconn = 0
  /\ nread = 0
  /\ lastRead = NoRead
  /\ lastWrite = NoWrite
  /\ ret = NoRet

\* ------------------------------------------------------------ handshake
\* AsyncConnection::__connect, entered from connect_async or from reconnect().
StartHs(from, url) == [NoHs EXCEPT !.from = from, !.url = url]

\* Mutant: one attempt too many on the known URL.
SameUrlAttempts_Three == 2 + 1

\* `for _ in 0..2`: attempts on the current known gateway URL
SameUrlAttempts == 2

\* Mutant: the locals of a failed __connect are forgotten instead of dropped.
HsFail_LeakSender(kind, ws, h) ==
  /\ workers' = ws
  /\ hs' = [h EXCEPT !.res = kind]
  /\ conn' = conn
  /\ IF h.from = "connect"
     THEN /\ cpc' = "failed"
          /\ ret' = Ret("err", kind, "connect", Null)
          /\ rc' = rc
     ELSE /\ rc' = [rc EXCEPT !.fails = @ + 1]
          /\ IF rc.hs <= SameUrlAttempts
             THEN cpc' = "reconnect_retry" /\ ret' = ret
             ELSE cpc' = "idle" /\ ret' = Ret("err", kind, "reconnect", Null)

\* Mutant: reconnect() returns the error of the first failed handshake.
HsFail_ReturnFirst(kind, ws, h) ==
  /\ workers' = DropSender(ws, h.w)
  /\ hs' = [h EXCEPT !.res = kind]
  /\ conn' = conn
  /\ IF h.from = "connect"
     THEN /\ cpc' = "failed"
          /\ ret' = Ret("err", kind, "connect", Null)
          /\ rc' = rc
     ELSE /\ rc' = [rc EXCEPT !.fails = @ + 1]
          /\ cpc' = "idle"
          /\ ret' = Ret("err", kind, "reconnect", Null)

\* __connect returned Err(kind) with locals h: they (keepalive_channel, both
\* socket halves) are dropped.  In reconnect() the first two attempts swallow
\* the error (`if let Ok`), the last returns it (`?`).
HsFail(kind, ws, h) ==
  /\ workers' = DropSender(ws, h.w)
  /\ hs' = [h EXCEPT !.res = kind]
  /\ conn' = conn
  /\ IF h.from = "connect"
     THEN /\ cpc' = "failed"
          /\ ret' = Ret("err", kind, "connect", Null)
          /\ rc' = rc
     ELSE /\ rc' = [rc EXCEPT !.fails = @ + 1]
          /\ IF rc.hs <= SameUrlAttempts
             THEN cpc' = "reconnect_retry" /\ ret' = ret
             ELSE cpc' = "idle" /\ ret' = Ret("err", kind, "reconnect", Null)

\* __connect returned Ok((conn, ready)) with locals h.  In reconnect() the new
\* connection replaces *self and the old one is forgotten (raw_shutdown: its
\* Sender is leaked, never dropped); session_id is set from ready once more.
HsOk(seq, sid, ws, h) ==
  /\ workers' = ws
  /\ hs' = [h EXCEPT !.res = "Ok"]
  /\ conn' = [ch |-> h.w, rx |-> h.t, session_id |-> sid, last_sequence |-> seq,
              observed |-> TRUE, lastSeen |-> seq, lastDispatch |-> Null,
              lastSeqFrame |-> seq]
  /\ cpc' = "idle"
  /\ ret' = Ret("ok", "Ready", h.from, seq)
  /\ rc' = rc

\* ConnectionBuilder::connect_async
Connect ==
  /\ cpc = "start"
  /\ cpc' = "hs_connect"
  /\ hs' = StartHs("connect", "base_url")
  /\ UNCHANGED <<conn, rc, rs, call, workers, nconn, nread, ret>> /\ lastWrite' = NoWrite /\ lastRead' = NoRead

\* build_gateway_url_v2(base_url)?; connect_async(url).await?; socket.split()
HsConnect ==
  /\ cpc = "hs_connect"
  /\ \E ok \in BOOLEAN :
       IF ok /\ nconn < MaxConns
       THEN /\ nconn' = nconn + 1
            /\ hs' = [hs EXCEPT !.t = nconn + 1]
            /\ cpc' = "hs_hello"
            /\ UNCHANGED <<conn, rc, workers, ret>>
       ELSE /\ HsFail("Tungstenite", workers, hs)
            /\ nconn' = nconn
  /\ UNCHANGED <<rs, call, nread>> /\ lastWrite' = NoWrite /\ lastRead' = NoRead

\* Mutant: whatever frame comes first is taken for the Hello.
HsHello_AnyFrame(f) ==
  LET h == [hs EXCEPT !.reads = @ + 1] IN
  /\ cpc = "hs_hello"
  /\ nread < MaxReads
  /\ nread' = nread + 1
  /\ lastRead' = f
  /\ IF f \in GatewayEvent
     THEN /\ lastWrite' = Written(h.t, Client, "direct", OpIdentify, Null, Null)
          /\ hs' = [h EXCEPT !.idents = @ + 1, !.interval = 1]
          /\ cpc' = "hs_spawn"
          /\ UNCHANGED <<conn, rc, workers, ret>>
     ELSE /\ HsFail(ErrorOf(f), workers, h)
          /\ lastWrite' = NoWrite
  /\ UNCHANGED <<rs, call, nconn>>

\* First frame: Hello(interval), else Protocol("Expected Hello during
\* handshake").  Then identify is written on socket_tx.
HsHello(f) ==
  LET h == [hs EXCEPT !.reads = @ + 1] IN
  /\ cpc = "hs_hello"
  /\ nread < MaxReads
  /\ nread' = nread + 1
  /\ lastRead' = f
  /\ IF f.op = "Hello"
     THEN \E sent \in BOOLEAN :
            IF sent
            THEN /\ lastWrite' = Written(h.t, Client, "direct", OpIdentify, Null, Null)
                 /\ hs' = [h EXCEPT !.idents = @ + 1, !.interval = f.n]
                 /\ cpc' = "hs_spawn"
                 /\ UNCHANGED <<conn, rc, workers, ret>>
            ELSE /\ HsFail("Tungstenite", workers, h)
                 /\ lastWrite' = NoWrite
     ELSE /\ HsFail(ErrorOf(f), workers, h)
          /\ lastWrite' = NoWrite
  /\ UNCHANGED <<rs, call, nconn>>

\* channel(10); tokio::spawn(keepalive_async(heartbeat_interval, socket_tx, rx))
HsSpawn ==
  /\ cpc = "hs_spawn"
  /\ workers' = Append(workers, Worker(hs.interval, hs.t))
  /\ hs' = [hs EXCEPT !.w = Len(workers) + 1]
  /\ cpc' = "hs_ready"
  /\ UNCHANGED <<conn, rc, rs, call, nconn, nread, ret>> /\ lastWrite' = NoWrite /\ lastRead' = NoRead

\* Second frame: Dispatch(seq, Ready) completes the handshake; InvalidateSession
\* re-sends identify through the worker and reads once more; anything else is
\* Protocol("Expected Ready or InvalidateSession during handshake").
HsReady(f) ==
  LET h == [hs EXCEPT !.reads = @ + 1] IN
  /\ cpc = "hs_ready"
  /\ nread < MaxReads
  /\ CanSend(hs.w)
  /\ nread' = nread + 1
  /\ lastRead' = f
  /\ IF f.op = "Dispatch" /\ f.ev = "Ready"
     THEN HsOk(f.n, f.sid, workers, h)
     ELSE IF f.op = "InvalidateSession"
     THEN IF RxClosed(workers, hs.w)
          THEN HsFail("Other", workers, [h EXCEPT !.inv = @ + 1])
          ELSE /\ workers' = Send(workers, hs.w, Identify)
               /\ hs' = [h EXCEPT !.idents = @ + 1, !.inv = @ + 1]
               /\ cpc' = "hs_ready2"
               /\ UNCHANGED <<conn, rc, ret>>
     ELSE HsFail(ErrorOf(f), workers, h)
  /\ UNCHANGED <<rs, call, nconn>> /\ lastWrite' = NoWrite

\* Mutant: a second InvalidateSession re-identifies and reads again.
HsReady2_Loop(f) ==
  LET h == [hs EXCEPT !.reads = @ + 1,
                      !.inv = IF f.op = "InvalidateSession" THEN @ + 1 ELSE @] IN
  /\ cpc = "hs_ready2"
  /\ nread < MaxReads
  /\ nread' = nread + 1
  /\ lastRead' = f
  /\ IF f.op = "Dispatch" /\ f.ev = "Ready"
     THEN HsOk(f.n, f.sid, workers, h)
     ELSE IF f.op = "InvalidateSession"
     THEN /\ workers' = Send(workers, hs.w, Identify)
          /\ hs' = [h EXCEPT !.idents = @ + 1]
          /\ UNCHANGED <<cpc, conn, rc, ret>>
     ELSE HsFail(ErrorOf(f), workers, h)
  /\ UNCHANGED <<rs, call, nconn>> /\ lastWrite' = NoWrite

\* Third frame, after the one permitted re-identify: Ready, or a Protocol error.
HsReady2(f) ==
  LET h == [hs EXCEPT !.reads = @ + 1,
                      !.inv = IF f.op = "InvalidateSession" THEN @ + 1 ELSE @] IN
  /\ cpc = "hs_ready2"
  /\ nread < MaxReads
  /\ nread' = nread + 1
  /\ lastRead' = f
  /\ IF f.op = "Dispatch" /\ f.ev = "Ready"
     THEN HsOk(f.n, f.sid, workers, h)
     ELSE HsFail(ErrorOf(f), workers, h)
  /\ UNCHANGED <<rs, call, nconn>> /\ lastWrite' = NoWrite

\* ------------------------------------------------------------ recv_event
\* Mutant: the close code is not looked at.
ShouldResume_AnyCode(trig, code, session_id) == session_id # Null

\* `if num != Some(4006)` and `if let Some(session_id) = self.session_id`
ShouldResume(trig, code, session_id) ==
  /\ trig = "Closed" => code # NoResumeCode
  /\ session_id # Null

\* A new call of the caller: the record of the previous one is cleared.
Forget ==
  /\ call' = NoCall
  /\ hs' = NoHs
  /\ rc' = NoRc
  /\ ret' = NoRet

\* A caller calls recv_event() on the constructed client.
RecvCall ==
  /\ cpc = "idle"
  /\ cpc' = "recv"
  /\ Forget
  /\ UNCHANGED <<conn, rs, workers, nconn, nread>> /\ lastWrite' = NoWrite /\ lastRead' = NoRead

\* Err(Error::Tungstenite(_)) and Err(Error::Closed(num, _)): resume if allowed,
\* else reconnect.
RecvFailure(f) ==
  LET trig == ErrorOf(f)
      go == ShouldResume(trig, f.n, conn.session_id) IN
  /\ call' = [trig |-> trig, code |-> f.n, sid0 |-> conn.session_id,
              seq0 |-> conn.last_sequence, resumed |-> go, reconn |-> ~go,
              rserr |-> "-"]
  /\ cpc' = IF go THEN "resume_connect" ELSE "reconnect_abort"
  /\ rs' = IF go THEN [t |-> 0, sid |-> conn.session_id] ELSE rs
  /\ UNCHANGED <<conn, workers, ret>>

\* Mutant: the dispatch's sequence is not stored.
RecvDispatch_NoSeq(f) ==
  /\ conn' = [conn EXCEPT !.lastSeen = f.n, !.lastDispatch = f.n, !.lastSeqFrame = f.n,
                          !.observed = IF f.ev \in {"Ready", "Resumed"} THEN TRUE ELSE @]
  /\ workers' = workers
  /\ cpc' = "idle"
  /\ ret' = Ret("ok", f.ev, "dispatch", f.n)
  /\ UNCHANGED <<call, rs>>

\* Ok(GatewayEvent::Dispatch(sequence, event)): last_sequence is stored, the
\* Sequence message is built but its send is never awaited, event is returned.
RecvDispatch(f) ==
  /\ conn' = [conn EXCEPT !.last_sequence = f.n,
                          !.lastSeen = f.n, !.lastDispatch = f.n, !.lastSeqFrame = f.n,
                          !.observed = IF f.ev \in {"Ready", "Resumed"} THEN TRUE ELSE @]
  /\ workers' = SendUnpolled(workers, conn.ch, Sequence(f.n))
  /\ cpc' = "idle"
  /\ ret' = Ret("ok", f.ev, "dispatch", f.n)
  /\ UNCHANGED <<call, rs>>

\* Mutant: the heartbeat request is answered with last_sequence.
RecvHeartbeat_LastSequence(f) ==
  /\ workers' = Send(workers, conn.ch, SendMessage(OpHeartbeat, conn.last_sequence))
  /\ conn' = [conn EXCEPT !.lastSeqFrame = f.n]
  /\ UNCHANGED <<cpc, call, rs, ret>>

\* Ok(GatewayEvent::Heartbeat(sequence)): an op-1 payload echoing it is posted.
RecvHeartbeat(f) ==
  /\ workers' = Send(workers, conn.ch, SendMessage(OpHeartbeat, f.n))
  /\ conn' = [conn EXCEPT !.lastSeqFrame = f.n]
  /\ UNCHANGED <<cpc, call, rs, ret>>

\* Mutant: the session id survives InvalidateSession.
RecvInvalidate_KeepSession ==
  /\ conn' = [conn EXCEPT !.observed = FALSE]
  /\ workers' = Send(workers, conn.ch, Identify)
  /\ UNCHANGED <<cpc, call, rs, ret>>

\* Ok(GatewayEvent::InvalidateSession): session_id = None, identify re-posted.
RecvInvalidate ==
  /\ conn' = [conn EXCEPT !.session_id = Null, !.observed = FALSE]
  /\ workers' = Send(workers, conn.ch, Identify)
  /\ UNCHANGED <<cpc, call, rs, ret>>

\* One iteration of recv_event's loop: a frame (or error) is read and handled.
RecvFrame(f) ==
  /\ cpc = "recv"
  /\ nread < MaxReads
  /\ CanSend(conn.ch)
  /\ nread' = nread + 1
  /\ lastRead' = f
  /\ CASE f.op \in {"ErrTungstenite", "ErrClosed"} -> RecvFailure(f)
       [] f.op = "ErrOther" ->
            /\ cpc' = "idle"
            /\ ret' = Ret("err", "Other", "recv", Null)
            /\ UNCHANGED <<conn, call, rs, workers>>
       [] f.op \in {"Hello", "HeartbeatAck"} ->
            UNCHANGED <<cpc, conn, call, rs, workers, ret>>
       [] f.op = "Dispatch" -> RecvDispatch(f)
       [] f.op = "Heartbeat" -> RecvHeartbeat(f)
       [] f.op = "Reconnect" ->
            /\ cpc' = "reconnect_abort"
            /\ call' = [call EXCEPT !.trig = "Reconnect", !.reconn = TRUE,
                                    !.sid0 = conn.session_id,
                                    !.seq0 = conn.last_sequence]
            /\ UNCHANGED <<conn, rs, workers, ret>>
       [] f.op = "InvalidateSession" -> RecvInvalidate
  /\ UNCHANGED <<hs, rc, nconn>> /\ lastWrite' = NoWrite

\* ---------------------------------------------------------------- resume
\* resume() returned Err(kind): recv_event logs it and falls through to
\* reconnect().  The new socket halves are dropped.
ResumeFail(kind) ==
  /\ cpc' = "reconnect_abort"
  /\ call' = [call EXCEPT !.reconn = TRUE, !.rserr = kind]
  /\ rs' = NoRs

\* Mutant: the new write half is handed to the worker as soon as it exists,
\* and the client still writes the resume request on it.
ResumeConnect_EarlyHandOver ==
  /\ cpc = "resume_connect"
  /\ \E ok \in BOOLEAN :
       IF ok /\ nconn < MaxConns
       THEN /\ nconn' = nconn + 1
            /\ rs' = [rs EXCEPT !.t = nconn + 1]
            /\ lastWrite' = Written(nconn + 1, Client, "direct", OpResume,
                                    conn.last_sequence, rs.sid)
            /\ workers' = Send(workers, conn.ch, ChangeSenderV2(nconn + 1))
            /\ cpc' = "resume_read"
            /\ call' = call
       ELSE /\ ResumeFail("Tungstenite")
            /\ UNCHANGED <<nconn, workers>> /\ lastWrite' = NoWrite
  /\ UNCHANGED <<conn, hs, rc, nread, ret>> /\ lastRead' = NoRead

\* build_gateway_url_v2(&self.gateway_resume_url)?; connect_async(url).await?;
\* then the resume request is written on the new write half (errors ignored).
ResumeConnect ==
  /\ cpc = "resume_connect"
  /\ \E ok \in BOOLEAN :
       IF ok /\ nconn < MaxConns
       THEN /\ nconn' = nconn + 1
            /\ rs' = [rs EXCEPT !.t = nconn + 1]
            /\ lastWrite' = Written(nconn + 1, Client, "direct", OpResume,
                                    conn.last_sequence, rs.sid)
            /\ cpc' = "resume_read"
            /\ call' = call
       ELSE /\ ResumeFail("Tungstenite")
            /\ UNCHANGED <<nconn>> /\ lastWrite' = NoWrite
  /\ UNCHANGED <<conn, hs, rc, workers, nread, ret>> /\ lastRead' = NoRead

\* Mutant: the resumed dispatch's sequence is not stored.
ResumeDispatch_NoSeq(f) ==
  /\ conn' = [conn EXCEPT !.session_id = IF f.ev = "Ready" THEN f.sid ELSE @,
                          !.lastSeen = f.n, !.lastSeqFrame = f.n,
                          !.rx = rs.t,
                          !.observed = IF f.ev \in {"Ready", "Resumed"} THEN TRUE ELSE @]
  /\ workers' = Send(workers, conn.ch, ChangeSenderV2(rs.t))
  /\ cpc' = "idle"
  /\ ret' = Ret("ok", f.ev, "resume", f.n)
  /\ rs' = NoRs
  /\ UNCHANGED <<call>> /\ lastWrite' = NoWrite

\* GatewayEvent::Dispatch(seq, event) in resume(): the session continues on the
\* new transport.  self.receiver is swapped and the new write half is handed to
\* the worker; the first dispatched event is returned from recv_event.
ResumeDispatch(f) ==
  /\ conn' = [conn EXCEPT !.session_id = IF f.ev = "Ready" THEN f.sid ELSE @,
                          !.last_sequence = f.n,
                          !.lastSeen = f.n, !.lastSeqFrame = f.n,
                          !.rx = rs.t,
                          !.observed = IF f.ev \in {"Ready", "Resumed"} THEN TRUE ELSE @]
  /\ workers' = Send(workers, conn.ch, ChangeSenderV2(rs.t))
  /\ cpc' = "idle"
  /\ ret' = Ret("ok", f.ev, "resume", f.n)
  /\ rs' = NoRs
  /\ UNCHANGED <<call>> /\ lastWrite' = NoWrite

\* One iteration of resume()'s loop: Hello builds a ChangeInterval message whose
\* send is never awaited; InvalidateSession re-identifies on the new write
\* half; a read error or any other frame ends resume() with an error.
ResumeRead(f) ==
  /\ cpc = "resume_read"
  /\ nread < MaxReads
  /\ CanSend(conn.ch)
  /\ nread' = nread + 1
  /\ lastRead' = f
  /\ CASE f.op = "Hello" ->
            /\ workers' = SendUnpolled(workers, conn.ch, ChangeInterval(f.n))
            /\ UNCHANGED <<cpc, conn, call, rs, ret>> /\ lastWrite' = NoWrite
       [] f.op = "Dispatch" -> ResumeDispatch(f)
       [] f.op = "InvalidateSession" ->
            \E sent \in BOOLEAN :
              IF sent
              THEN /\ lastWrite' = Written(rs.t, Client, "direct", OpIdentify, Null, Null)
                   /\ conn' = [conn EXCEPT !.observed = FALSE]
                   /\ UNCHANGED <<cpc, call, rs, workers, ret>>
              ELSE /\ ResumeFail("Tungstenite")
                   /\ conn' = [conn EXCEPT !.observed = FALSE]
                   /\ UNCHANGED <<workers, ret>> /\ lastWrite' = NoWrite
       [] OTHER ->
            /\ ResumeFail(ErrorOf(f))
            /\ UNCHANGED <<conn, workers, ret>> /\ lastWrite' = NoWrite
  /\ UNCHANGED <<hs, rc, nconn>>

\* ------------------------------------------------------------- reconnect
\* Mutant: reconnect() starts its handshakes without stopping the worker.
ReconnectAbort_NoAbort ==
  /\ cpc = "reconnect_abort"
  /\ CanSend(conn.ch)
  /\ IF RxClosed(workers, conn.ch)
     THEN /\ cpc' = "panicked"
          /\ rc' = NoRc
          /\ UNCHANGED <<hs, workers>>
     ELSE /\ workers' = workers
          /\ rc' = [NoRc EXCEPT !.abort = TRUE, !.old = conn.ch, !.hs = 1]
          /\ hs' = StartHs("reconnect", "ws_url")
          /\ cpc' = "hs_connect"
  /\ UNCHANGED <<conn, rs, call, nconn, nread, ret>> /\ lastWrite' = NoWrite /\ lastRead' = NoRead

\* reconnect(): Abort is posted to the current worker (`expect` panics when its
\* channel is closed), then the first handshake starts.
ReconnectAbort ==
  /\ cpc = "reconnect_abort"
  /\ CanSend(conn.ch)
  /\ IF RxClosed(workers, conn.ch)
     THEN /\ cpc' = "panicked"
          /\ rc' = NoRc
          /\ UNCHANGED <<hs, workers>>
     ELSE /\ workers' = Send(workers, conn.ch, Aborted)
          /\ rc' = [NoRc EXCEPT !.abort = TRUE, !.old = conn.ch, !.hs = 1]
          /\ hs' = StartHs("reconnect", "ws_url")
          /\ cpc' = "hs_connect"
  /\ UNCHANGED <<conn, rs, call, nconn, nread, ret>> /\ lastWrite' = NoWrite /\ lastRead' = NoRead

\* After a failed attempt: the next attempt on the same URL, or, when those are
\* used up, get_gateway_url()? and the attempt on the URL it returns.
ReconnectRetry ==
  /\ cpc = "reconnect_retry"
  /\ IF rc.hs < SameUrlAttempts
     THEN /\ rc' = [rc EXCEPT !.hs = @ + 1]
          /\ hs' = StartHs("reconnect", "ws_url")
          /\ cpc' = "hs_connect"
          /\ ret' = ret
     ELSE \E found \in BOOLEAN :
            IF found
            THEN /\ rc' = [rc EXCEPT !.hs = @ + 1, !.rest = @ + 1]
                 /\ hs' = StartHs("reconnect", "rest_url")
                 /\ cpc' = "hs_connect"
                 /\ ret' = ret
            ELSE /\ rc' = [rc EXCEPT !.rest = @ + 1]
                 /\ cpc' = "idle"
                 /\ ret' = Ret("err", "Rest", "reconnect", Null)
                 /\ hs' = hs
  /\ UNCHANGED <<conn, rs, call, workers, nconn, nread>> /\ lastWrite' = NoWrite /\ lastRead' = NoRead

\* --------------------------------------------------- caller-facing calls
\* set_presence / sync_servers / sync_calls / download_all_members: one
\* SendMessage posted, failures swallowed.
set_presence ==
  /\ cpc = "idle"
  /\ ~RxClosed(workers, conn.ch) => Len(workers[conn.ch].queue) < MaxPending
  /\ workers' = Send(workers, conn.ch, SendMessage(OpPresence, Null))
  /\ Forget
  /\ UNCHANGED <<cpc, conn, rs, nconn, nread>> /\ lastWrite' = NoWrite /\ lastRead' = NoRead

\* inner_shutdown(), polled to completion: Abort is posted; `expect` panics
\* when the worker's channel is closed.
inner_shutdown(ws, w) == Send(ws, w, Aborted)

\* shutdown(self): inner_shutdown().await, then mem::forget(self).
shutdown ==
  /\ cpc = "idle"
  /\ CanSend(conn.ch)
  /\ IF RxClosed(workers, conn.ch)
     THEN cpc' = "panicked" /\ workers' = workers
     ELSE cpc' = "shut" /\ workers' = inner_shutdown(workers, conn.ch)
  /\ Forget
  /\ UNCHANGED <<conn, rs, nconn, nread>> /\ lastWrite' = NoWrite /\ lastRead' = NoRead

\* Drop for AsyncConnection: `let _ = self.inner_shutdown();` builds the future
\* and drops it unpolled; then the fields, keepalive_channel among them, drop.
drop ==
  /\ cpc = "idle"
  /\ cpc' = "dropped"
  /\ workers' = DropSender(workers, conn.ch)
  /\ Forget
  /\ UNCHANGED <<conn, rs, nconn, nread>> /\ lastWrite' = NoWrite /\ lastRead' = NoRead

\* ------------------------------------------------------- keepalive_async
\* The jitter sleep is over: the first heartbeat {op:1, d:null} is written, the
\* timer started and last_sequence set to 0.
WorkerStart(w) ==
  /\ w \in WorkerIds
  /\ workers[w].pc = "jitter"
  /\ lastWrite' = Written(workers[w].sender, w, "first", OpHeartbeat, Null, Null)
  /\ workers' = [workers EXCEPT ![w].pc = "loop", ![w].last_sequence = 0]
  /\ UNCHANGED <<cpc, conn, hs, rc, rs, call, nconn, nread, ret>> /\ lastRead' = NoRead

\* Mutant: Aborted does not leave the loop.
Handle_IgnoreAbort(wk, m) ==
  CASE m.k = "Sequence" -> [wk EXCEPT !.last_sequence = m.d]
    [] m.k = "ChangeInterval" -> [wk EXCEPT !.interval = m.d]
    [] m.k = "ChangeSenderV2" -> [wk EXCEPT !.sender = m.d]
    [] OTHER -> wk

\* Mutant: a Sequence message is dequeued and forgotten.
Handle_DropSequence(wk, m) ==
  CASE m.k = "ChangeInterval" -> [wk EXCEPT !.interval = m.d]
    [] m.k = "ChangeSenderV2" -> [wk EXCEPT !.sender = m.d]
    [] m.k = "Aborted" -> [wk EXCEPT !.pc = "closing", !.exit = "abort"]
    [] OTHER -> wk

\* The worker's state after channel.try_recv() returned Ok(m).
Handle(wk, m) ==
  CASE m.k = "Sequence" -> [wk EXCEPT !.last_sequence = m.d]
    [] m.k = "ChangeInterval" -> [wk EXCEPT !.interval = m.d]
    [] m.k = "ChangeSenderV2" -> [wk EXCEPT !.sender = m.d]
    [] m.k = "Aborted" -> [wk EXCEPT !.pc = "closing", !.exit = "abort"]
    [] OTHER -> wk

\* try_recv() returns the oldest queued message; SendMessage is written at once.
WorkerRecv(w) ==
  /\ w \in WorkerIds
  /\ workers[w].pc = "loop"
  /\ workers[w].queue # <<>>
  /\ LET m == Head(workers[w].queue)
         wk == [workers[w] EXCEPT !.queue = Tail(@),
                                  !.told = IF m.k = "Sequence" THEN m.d ELSE @] IN
       /\ workers' = [workers EXCEPT ![w] = Handle(wk, m)]
       /\ lastWrite' = IF m.k = "SendMessage"
                       THEN Written(wk.sender, w, "msg", m.op, m.d, Null)
                       ELSE NoWrite
  /\ UNCHANGED <<cpc, conn, hs, rc, rs, call, nconn, nread, ret>> /\ lastRead' = NoRead

\* Mutant: the timer is checked although a message is still queued.
WorkerEmpty_Eager(w) ==
  /\ w \in WorkerIds
  /\ workers[w].pc = "loop"
  /\ workers[w].txAlive
  /\ workers' = [workers EXCEPT ![w].pc = "tick"]
  /\ UNCHANGED <<cpc, conn, hs, rc, rs, call, nconn, nread, ret>> /\ lastWrite' = NoWrite /\ lastRead' = NoRead

\* try_recv() returned Empty, which ends the drain, and timer.check_tick() is
\* true (the period has gone by, which may be the case at any tick).  When it
\* is false the task sleeps and drains again: nothing changes.
WorkerEmpty(w) ==
  /\ w \in WorkerIds
  /\ workers[w].pc = "loop"
  /\ workers[w].queue = <<>>
  /\ workers[w].txAlive
  /\ workers' = [workers EXCEPT ![w].pc = "tick"]
  /\ UNCHANGED <<cpc, conn, hs, rc, rs, call, nconn, nread, ret>> /\ lastWrite' = NoWrite /\ lastRead' = NoRead

\* The periodic heartbeat {op:1, d:last_sequence} is written; then the next
\* iteration of 'outer.
WorkerHeartbeat(w) ==
  /\ w \in WorkerIds
  /\ workers[w].pc = "tick"
  /\ lastWrite' = Written(workers[w].sender, w, "timer", OpHeartbeat,
                          workers[w].last_sequence, Null)
  /\ workers' = [workers EXCEPT ![w].pc = "loop"]
  /\ UNCHANGED <<cpc, conn, hs, rc, rs, call, nconn, nread, ret>> /\ lastRead' = NoRead

\* try_recv() returned Disconnected: every Sender is dropped and the queue empty.
WorkerDisconnected(w) ==
  /\ w \in WorkerIds
  /\ workers[w].pc = "loop"
  /\ workers[w].queue = <<>>
  /\ ~workers[w].txAlive
  /\ workers' = [workers EXCEPT ![w].pc = "closing", ![w].exit = "disconnected"]
  /\ UNCHANGED <<cpc, conn, hs, rc, rs, call, nconn, nread, ret>> /\ lastWrite' = NoWrite /\ lastRead' = NoRead

\* After the loop: the close frame is sent best-effort and the task returns,
\* dropping its Receiver (and whatever is still queued in it).
WorkerClose(w) ==
  /\ w \in WorkerIds
  /\ workers[w].pc = "closing"
  /\ lastWrite' = Written(workers[w].sender, w, "close", OpClose, Null, Null)
  /\ workers' = [workers EXCEPT ![w].pc = "done", ![w].queue = <<>>]
  /\ UNCHANGED <<cpc, conn, hs, rc, rs, call, nconn, nread, ret>> /\ lastRead' = NoRead

WorkerStep(w) ==
  \/ WorkerStart(w)
  \/ WorkerRecv(w)
  \/ WorkerEmpty(w)
  \/ WorkerHeartbeat(w)
  \/ WorkerDisconnected(w)
  \/ WorkerClose(w)

Next ==
  \/ Connect
  \/ HsConnect
  \/ \E f \in RecvResult : HsHello(f)
  \/ HsSpawn
  \/ \E f \in RecvResult : HsReady(f)
  \/ \E f \in RecvResult : HsReady2(f)
  \/ RecvCall
  \/ \E f \in RecvResult : RecvFrame(f)
  \/ ResumeConnect
  \/ \E f \in RecvResult : ResumeRead(f)
  \/ ReconnectAbort
  \/ ReconnectRetry
  \/ set_presence
  \/ shutdown
  \/ drop
  \/ \E w \in 1 .. MaxConns : WorkerStart(w)
  \/ \E w \in 1 .. MaxConns : WorkerRecv(w)
  \/ \E w \in 1 .. MaxConns : WorkerEmpty(w)
  \/ \E w \in 1 .. MaxConns : WorkerHeartbeat(w)
  \/ \E w \in 1 .. MaxConns : WorkerDisconnected(w)
  \/ \E w \in 1 .. MaxConns : WorkerClose(w)

Spec == Init /\ [][Next]_vars

\* The runtime schedules every spawned keepalive_async task again and again.
\* Behaviours are checked for liveness over runs of at most LiveReads reads.
LiveNext == Next /\ nread' <= LiveReads

FairSpec ==
  /\ Init
  /\ [][LiveNext]_vars
  /\ \A w \in 1 .. MaxConns : WF_vars(WorkerStep(w))

\* Behaviours long enough for a whole reconnect() (MaxReads reads) are checked
\* for liveness with the sequence numbers and session ids of inbound frames,
\* which no scheduling depends on, drawn from 1 .. LiveVals.
RecoveryNext ==
  /\ Next
  /\ lastRead'.op \in {"Dispatch", "Heartbeat"} => lastRead'.n <= LiveVals
  /\ lastRead'.sid <= LiveVals

RecoveryFairSpec ==
  /\ Init
  /\ [][RecoveryNext]_vars
  /\ \A w \in 1 .. MaxConns : WF_vars(WorkerStep(w))

\* ------------------------------------------- keepalive_async on its own
\* One keepalive_async task run against every holder of its channel's Sender
\* there could be: the Status values this file constructs are posted in any
\* order, and the Senders may all be dropped.
StatusValues ==
  {Identify, SendMessage(OpPresence, Null), Aborted}
    \cup {SendMessage(OpHeartbeat, s) : s \in Seqs}
    \cup {Sequence(s) : s \in Seqs}
    \cup {ChangeInterval(i) : i \in Intervals}

WorkerInit ==
  /\ cpc = "worker_only"
  /\ conn = NoConn
  /\ hs = NoHs
  /\ rc = NoRc
  /\ rs = NoRs
  /\ call = NoCall
  /\ workers \in {<<Worker(i, 1)>> : i \in Intervals}
  /\ nconn = 1
  /\ nread = 0
  /\ lastRead = NoRead
  /\ lastWrite = NoWrite
  /\ ret = NoRet

\* keepalive_channel.send(m).await by a holder of the Sender.
WorkerPost(m) ==
  /\ cpc = "worker_only"
  /\ workers[1].txAlive
  /\ ~RxClosed(workers, 1)
  /\ Len(workers[1].queue) < MaxQueue
  /\ workers' = Send(workers, 1, m)
  /\ UNCHANGED <<cpc, conn, hs, rc, rs, call, nconn, nread, ret>> /\ lastWrite' = NoWrite /\ lastRead' = NoRead

\* keepalive_channel.send(Status::ChangeSenderV2(socket_tx)).await with the
\* write half of a newly opened transport.
WorkerPostSender ==
  /\ cpc = "worker_only"
  /\ workers[1].txAlive
  /\ ~RxClosed(workers, 1)
  /\ Len(workers[1].queue) < MaxQueue
  /\ nconn < MaxConns
  /\ nconn' = nconn + 1
  /\ workers' = Send(workers, 1, ChangeSenderV2(nconn + 1))
  /\ UNCHANGED <<cpc, conn, hs, rc, rs, call, nread, ret>> /\ lastWrite' = NoWrite /\ lastRead' = NoRead

\* The last Sender is dropped.
WorkerDropSender ==
  /\ cpc = "worker_only"
  /\ workers[1].txAlive
  /\ workers' = DropSender(workers, 1)
  /\ UNCHANGED <<cpc, conn, hs, rc, rs, call, nconn, nread, ret>> /\ lastWrite' = NoWrite /\ lastRead' = NoRead

WorkerNext ==
  \/ \E m \in StatusValues : WorkerPost(m)
  \/ WorkerPostSender
  \/ WorkerDropSender
  \/ \E w \in 1 .. MaxConns : WorkerStart(w)
  \/ \E w \in 1 .. MaxConns : WorkerRecv(w)
  \/ \E w \in 1 .. MaxConns : WorkerEmpty(w)
  \/ \E w \in 1 .. MaxConns : WorkerHeartbeat(w)
  \/ \E w \in 1 .. MaxConns : WorkerDisconnected(w)
  \/ \E w \in 1 .. MaxConns : WorkerClose(w)

WorkerSpec == WorkerInit /\ [][WorkerNext]_vars

TypeOK ==
  /\ nconn \in 0 .. MaxConns
  /\ nread \in 0 .. MaxReads
  /\ Len(workers) <= nconn

\* ======================================================== properties
HasAbort(w) == \E i \in 1 .. Len(workers[w].queue) : workers[w].queue[i].k = "Aborted"

InHandshake == cpc \in {"hs_connect", "hs_hello", "hs_spawn", "hs_ready", "hs_ready2"}
InResume == cpc \in {"resume_connect", "resume_read"}

\* C1: every periodic heartbeat the current worker writes after recv_event has
\* processed Dispatch(seq), with nothing left in its queue, carries exactly seq.
C1_HeartbeatCarriesLastDispatch ==
  (/\ lastWrite.via = "timer"
   /\ lastWrite.by = conn.ch
   /\ workers[conn.ch].queue = <<>>
   /\ conn.lastDispatch # Null)
    => lastWrite.d = conn.lastDispatch

\* C2: a close with code 4006 never leads recv_event into resume(), whether or
\* not a session id is held: it goes straight to reconnect(); a transport error
\* or any other close with a session id held enters resume() first, and
\* reconnect() has not started while resume() runs.
C2_No4006Resume ==
  /\ (call.trig = "Closed" /\ call.code = NoResumeCode)
       => (~call.resumed /\ call.reconn /\ ~InResume)
  /\ (/\ call.trig \in {"Tungstenite", "Closed"}
      /\ ~(call.trig = "Closed" /\ call.code = NoResumeCode)
      /\ call.sid0 # Null)
       => call.resumed
  /\ InResume => (call.resumed /\ ~call.reconn /\ ~rc.abort)
  /\ (call.reconn /\ call.trig \in {"Tungstenite", "Closed"})
       => (call.resumed <=> ShouldResume(call.trig, call.code, call.sid0))

C2_Witness ==
  /\ call.trig = "Closed"
  /\ call.code = NoResumeCode
  /\ call.sid0 # Null
  /\ rc.abort
  /\ InHandshake

\* C3: a handshake sends identify at most twice and reads at most three frames;
\* an InvalidateSession in place of Ready causes exactly one re-send and one
\* more read, and a second InvalidateSession ends it with a Protocol error.
C3_HandshakeRetriesOnce ==
  /\ hs.idents <= 2
  /\ hs.reads <= 3
  /\ hs.inv <= 2
  /\ hs.inv >= 1 => hs.idents = 2
  /\ cpc = "hs_ready2" => (hs.inv = 1 /\ hs.reads = 2 /\ hs.idents = 2)
  /\ hs.reads = 3 => (hs.inv >= 1 /\ hs.res # "-" /\ ~InHandshake)
  /\ hs.inv = 2 => hs.res = "Protocol"

C3_Witness ==
  /\ hs.inv = 2
  /\ hs.reads = 3
  /\ hs.idents = 2
  /\ hs.res = "Protocol"

\* C4: the resume request carries the session id and last_sequence held when the
\* failure was detected, and that sequence is the one of the last Dispatch (or
\* handshake Ready) processed before it.
C4_ResumeCarriesStateAtFailure ==
  lastWrite.op = OpResume =>
    /\ lastWrite.by = Client
    /\ cpc = "resume_read"
    /\ lastWrite.d = call.seq0
    /\ lastWrite.sid = call.sid0
    /\ lastWrite.sid # Null
    /\ lastWrite.d = conn.lastSeen

C4_Witness ==
  /\ lastWrite.op = OpResume
  /\ conn.lastDispatch = 2
  /\ lastWrite.d = 2
  /\ lastWrite.sid = 2

\* C5 as stated: after the handshake's initial identify the client never writes
\* to a write half itself.
C5_ClientWritesOnlyFirstIdentify ==
  (lastWrite # NoWrite /\ lastWrite.by = Client)
    => (lastWrite.op = OpIdentify /\ cpc = "hs_spawn" /\ lastWrite.t = hs.t)

\* The holders of write half t: the client (between connect and handing it over),
\* the workers whose `sender` it is, the ChangeSenderV2 messages carrying it.
Owners(t) ==
  {<<"client", 0, 0>> : x \in {1} \cap
      (IF \/ (cpc \in {"hs_hello", "hs_spawn"} /\ hs.t = t)
          \/ (cpc = "resume_read" /\ rs.t = t) THEN {1} ELSE {})}
    \cup {<<"worker", w, 0>> : w \in {v \in WorkerIds :
            workers[v].pc # "done" /\ workers[v].sender = t}}
    \cup UNION {{<<"queued", w, i>> : i \in {j \in 1 .. Len(workers[w].queue) :
            workers[w].queue[j] = ChangeSenderV2(t)}} : w \in WorkerIds}

\* C5 (amended): every write half has at most one owner at every instant and
\* only its owner writes to it; the client writes only to a half it still
\* holds: the initial identify of a handshake (before the worker is spawned
\* with that half) and, in resume(), the resume request and re-identify on the
\* new transport before ChangeSenderV2 hands it over.
C5_SingleOwnerWrites ==
  /\ \A t \in 1 .. nconn : Cardinality(Owners(t)) <= 1
  /\ (lastWrite # NoWrite /\ lastWrite.by = Client) =>
       \/ /\ cpc = "hs_spawn"
          /\ lastWrite.op = OpIdentify
          /\ lastWrite.t = hs.t
          /\ Owners(hs.t) = {<<"client", 0, 0>>}
       \/ /\ cpc = "resume_read"
          /\ lastWrite.op \in {OpResume, OpIdentify}
          /\ lastWrite.t = rs.t
          /\ Owners(rs.t) = {<<"client", 0, 0>>}
  /\ (lastWrite # NoWrite /\ lastWrite.by # Client) =>
       /\ lastWrite.by \in WorkerIds
       /\ workers[lastWrite.by].sender = lastWrite.t
       /\ Owners(lastWrite.t) \subseteq {<<"worker", lastWrite.by, 0>>}

C5_Witness ==
  /\ cpc = "resume_read"
  /\ lastWrite.by = Client
  /\ lastWrite.op = OpIdentify
  /\ lastWrite.t = rs.t
  /\ workers[conn.ch].pc = "loop"

\* C6: reconnect() posts Abort to the current worker before any handshake, makes
\* at most 2 handshakes on the known endpoint, queries REST at most once and
\* only after both failed, then makes at most one more handshake (3 in all);
\* the first success replaces the client (new session, new worker) and
\* recv_event returns its Ready; when every attempt fails it returns an error.
C6_ReconnectPolicy ==
  /\ (InHandshake /\ hs.from = "reconnect") => rc.abort
  /\ rc.hs > 0 => rc.abort
  /\ rc.abort =>
       /\ rc.old \in WorkerIds
       /\ HasAbort(rc.old) \/ workers[rc.old].exit = "abort"
  /\ rc.hs <= 3
  /\ (rc.hs \in {1, 2} /\ hs.from = "reconnect") => hs.url = "ws_url"
  /\ rc.hs = 3 => (hs.from = "reconnect" /\ hs.url = "rest_url")
  /\ rc.rest <= 1
  /\ rc.rest = 1 => rc.fails >= 2
  /\ rc.hs = 3 => rc.rest = 1
  /\ rc.fails <= rc.hs
  /\ (rc.abort /\ hs.res = "Ok") =>
       /\ cpc = "idle"
       /\ ret = Ret("ok", "Ready", "reconnect", conn.last_sequence)
       /\ rc.fails = rc.hs - 1
       /\ conn.ch = hs.w /\ conn.rx = hs.t
       /\ conn.ch # rc.old /\ conn.rx = nconn
       /\ conn.session_id # Null
  /\ (rc.abort /\ cpc = "idle" /\ hs.res # "Ok") =>
       /\ ret.kind = "err" /\ ret.via = "reconnect"
       /\ rc.fails = rc.hs
       /\ rc.rest = 1
       /\ conn.ch = rc.old
  /\ ret.via = "reconnect" => (rc.abort /\ cpc = "idle")

C6_Witness ==
  /\ rc.hs = 3
  /\ hs.url = "rest_url"
  /\ rc.rest = 1
  /\ rc.fails = 2
  /\ ret = Ret("ok", "Ready", "reconnect", conn.last_sequence)
  /\ call.trig = "Closed" /\ call.code = NoResumeCode

\* C7: when resume() is answered by Dispatch(seq, Resumed), recv_event returns
\* that event: no synthetic Ready, reconnect() not run, no Abort posted, and
\* last_sequence = seq.
C7_ResumeTransparent ==
  /\ (ret.via = "resume") =>
       /\ ret.kind = "ok"
       /\ cpc = "idle"
       /\ call.resumed /\ ~call.reconn
       /\ rc = NoRc
       /\ conn.last_sequence = ret.seq
       /\ call.trig \in {"Tungstenite", "Closed"}
       /\ call.code # NoResumeCode
       /\ call.sid0 # Null
  /\ (cpc = "idle" /\ call.resumed /\ ~call.reconn) => ret.via = "resume"
  /\ (ret.via = "resume" /\ ret.ev = "Resumed") => conn.session_id = call.sid0

C7_Witness ==
  /\ ret = Ret("ok", "Resumed", "resume", 2)
  /\ call.seq0 = 1
  /\ call.trig = "Closed" /\ call.code = Null
  /\ ~HasAbort(conn.ch)
  /\ workers[conn.ch].exit = "none"

\* C8: once Abort is queued for a worker, or every Sender of its channel is
\* dropped, its loop eventually exits and the task ends; after the loop it
\* writes only the one close frame, so nothing queued behind Abort is written.
C8_WorkerTerminates ==
  /\ \A w \in 1 .. MaxConns :
       (w \in WorkerIds /\ (HasAbort(w) \/ ~workers[w].txAlive))
         ~> (w \in WorkerIds /\ workers[w].pc = "done")
  /\ [][\A w \in WorkerIds :
          (lastWrite' # NoWrite /\ lastWrite'.by = w /\ workers[w].pc \in {"closing", "done"})
            => (workers[w].pc = "closing" /\ lastWrite'.via = "close"
                /\ workers'[w].pc = "done")]_vars
  /\ [][\A w \in WorkerIds :
          (workers[w].queue # <<>> /\ Head(workers[w].queue).k = "Aborted"
             /\ workers'[w].queue = Tail(workers[w].queue) /\ workers[w].pc = "loop")
            => (workers'[w].pc = "closing" /\ lastWrite' = NoWrite)]_vars

C8_Witness ==
  \E w \in WorkerIds :
    /\ workers[w].pc = "done"
    /\ workers[w].exit = "abort"
    /\ lastWrite.via = "close" /\ lastWrite.by = w
    /\ cpc = "shut"

\* C9: whenever the client has been dropped, an Abort was enqueued for its
\* worker.
C9_DropPostsAbort ==
  cpc = "dropped" => (HasAbort(conn.ch) \/ workers[conn.ch].exit = "abort")

\* C10: between calls, session_id is Some exactly when a Ready or a successful
\* Resumed has been observed since the last InvalidateSession.
C10_SessionIdIffObserved ==
  cpc = "idle" => ((conn.session_id # Null) <=> conn.observed)

\* C11: between frames, last_sequence is the sequence of the most recently
\* observed Dispatch or Heartbeat frame, and it is the value carried by every
\* resume request and by every periodic heartbeat the current worker writes
\* with nothing left in its queue.
C11_LastSequenceIsLatestFrame ==
  /\ (cpc \in {"idle", "recv"} /\ conn.lastSeqFrame # Null)
       => conn.last_sequence = conn.lastSeqFrame
  /\ lastWrite.op = OpResume => lastWrite.d = conn.last_sequence
  /\ (/\ lastWrite.op = OpHeartbeat
      /\ lastWrite.via = "timer"
      /\ lastWrite.by = conn.ch
      /\ workers[conn.ch].queue = <<>>
      /\ cpc \in {"idle", "recv"})
       => lastWrite.d = conn.last_sequence

\* C12 as stated: a Protocol error of resume() or of a handshake run by
\* reconnect() is returned from recv_event at once, with no further recovery.
C12_ProtocolErrorSurfaced ==
  /\ call.rserr = "Protocol"
       => (cpc = "idle" /\ ret.kind = "err" /\ ret.ev = "Protocol" /\ ~call.reconn)
  /\ (hs.from = "reconnect" /\ hs.res = "Protocol")
       => (cpc = "idle" /\ ret = Ret("err", "Protocol", "reconnect", Null))

\* C12 (amended): an error of resume(), Protocol included, is never returned:
\* recv_event goes on to reconnect(); a Protocol error of one of reconnect()'s
\* attempts on the known URL is swallowed and the next step of the policy is
\* taken; only the error of the last handshake (on the URL REST returned) is
\* returned, as is the Protocol error of a handshake run by connect.
C12_ProtocolErrorSurfacedLast ==
  /\ ret.via = "resume" => ret.kind = "ok"
  /\ call.rserr # "-" => (call.resumed /\ call.reconn /\ ~InResume)
  /\ (hs.from = "reconnect" /\ hs.res = "Protocol") =>
       IF rc.hs <= SameUrlAttempts
       THEN \/ cpc = "reconnect_retry" /\ ret.kind # "err"
            \/ cpc = "idle" /\ ret = Ret("err", "Rest", "reconnect", Null)
       ELSE cpc = "idle" /\ ret = Ret("err", "Protocol", "reconnect", Null)
  /\ (hs.from = "connect" /\ hs.res = "Protocol")
       => (cpc = "failed" /\ ret = Ret("err", "Protocol", "connect", Null))

C12_Witness ==
  /\ call.rserr = "Protocol"
  /\ hs.from = "reconnect"
  /\ hs.res = "Protocol"
  /\ rc.hs = 1
  /\ cpc = "reconnect_retry"

\* A caller-visible return of recv_event: a dispatched event (read by recv_event
\* or the first one of a resume), the Ready of a reconnect, or an error.
ReturnsAllowed ==
  \/ ret.kind = "err"
  \/ ret.kind = "ok" /\ ret.via \in {"dispatch", "resume"}
  \/ ret.kind = "ok" /\ ret.via = "reconnect" /\ ret.ev = "Ready"

\* C13: recv_event returns only dispatched events, the Ready of a successful
\* reconnect, or an error; reading Heartbeat, HeartbeatAck, Hello or
\* InvalidateSession does not return (the loop goes on, nothing is handed to
\* the caller); reading Heartbeat(seq) posts exactly one message to the worker,
\* the op-1 payload echoing seq, and no other frame posts an op-1 payload.
C13_HousekeepingNeverReturns ==
  /\ [](ret = NoRet \/ ret.via = "connect" \/ ReturnsAllowed)
  /\ [][(cpc = "recv" /\ ret' # ret /\ ret'.kind = "ok")
          => (lastRead'.op = "Dispatch" /\ ret' = Ret("ok", lastRead'.ev, "dispatch", lastRead'.n))]_vars
  /\ [][(cpc = "recv" /\ lastRead' # NoRead) =>
          /\ lastRead'.op \in {"Heartbeat", "HeartbeatAck", "Hello", "InvalidateSession"}
               => (cpc' = "recv" /\ ret' = NoRet)
          /\ (lastRead'.op = "Heartbeat" /\ ~RxClosed(workers, conn.ch))
               => workers' = [workers EXCEPT ![conn.ch].queue =
                                Append(@, SendMessage(OpHeartbeat, lastRead'.n))]
          /\ lastRead'.op # "Heartbeat"
               => \A i \in 1 .. Len(workers'[conn.ch].queue) :
                    workers'[conn.ch].queue[i].op = OpHeartbeat
                      => (i <= Len(workers[conn.ch].queue)
                          /\ workers[conn.ch].queue[i] = workers'[conn.ch].queue[i])]_vars

C13_Witness ==
  /\ cpc = "recv"
  /\ lastRead.op = "Heartbeat"
  /\ lastRead.n = 2
  /\ conn.last_sequence = 1
  /\ workers[conn.ch].queue = <<SendMessage(OpHeartbeat, 2)>>

\* C14: when the first frame a handshake reads is not Hello, __connect fails
\* with a Protocol error, having written no identify and spawned no worker (a
\* handshake run by connect returns that error); in every handshake the worker
\* is spawned only after the identify was written, and a worker writes
\* heartbeats only once spawned, so after that identify.
C14_HelloFirst ==
  /\ [][(cpc = "hs_hello" /\ lastRead' \in GatewayEvent /\ lastRead'.op # "Hello") =>
          /\ hs'.res = "Protocol"
          /\ hs'.idents = 0 /\ hs'.w = 0
          /\ lastWrite' = NoWrite
          /\ workers' = workers
          /\ ~InHandshake'
          /\ hs.from = "connect" =>
               (cpc' = "failed" /\ ret' = Ret("err", "Protocol", "connect", Null))]_vars
  /\ [][Len(workers') # Len(workers) =>
          /\ Len(workers') = Len(workers) + 1
          /\ cpc = "hs_spawn" /\ hs.idents = 1 /\ hs.w = 0
          /\ lastWrite' = NoWrite
          /\ workers'[Len(workers')].sender = hs.t
          /\ workers'[Len(workers')].pc = "jitter"]_vars
  /\ [][(lastWrite' # NoWrite /\ lastWrite'.op = OpHeartbeat)
          => (lastWrite'.by \in WorkerIds /\ workers[lastWrite'.by].sender = lastWrite'.t)]_vars
  /\ [](InHandshake /\ hs.w # 0 => hs.idents >= 1)

C14_Witness ==
  /\ cpc = "failed"
  /\ lastRead.op = "Dispatch"
  /\ hs.res = "Protocol"
  /\ hs.reads = 1
  /\ workers = <<>>

\* C15: a heartbeat the worker writes on its own (the first one and the
\* periodic ones) carries the last sequence it was told, or null when it has
\* not been told any.
C15_HeartbeatNullBeforeSequence ==
  (/\ lastWrite.op = OpHeartbeat
   /\ lastWrite.via \in {"first", "timer"}
   /\ lastWrite.by \in WorkerIds)
    => lastWrite.d = workers[lastWrite.by].told

\* C16: once a worker has dequeued Sequence(n), and no later Sequence message
\* since, the periodic heartbeat it writes is {op:1, d:n}: every Sequence
\* dequeued replaces the cached value, so of several the last one counts.
C16_HeartbeatCarriesLastDequeued ==
  /\ [](\A w \in WorkerIds :
          workers[w].told # Null => workers[w].last_sequence = workers[w].told)
  /\ [][\A w \in WorkerIds :
          (/\ workers[w].pc = "loop"
           /\ workers[w].queue # <<>>
           /\ Head(workers[w].queue).k = "Sequence"
           /\ workers'[w].queue = Tail(workers[w].queue))
            => workers'[w].last_sequence = Head(workers[w].queue).d]_vars
  /\ [][\A w \in WorkerIds :
          (lastWrite' # NoWrite /\ lastWrite'.by = w /\ lastWrite'.via = "timer"
             /\ workers[w].told # Null)
            => (lastWrite'.op = OpHeartbeat /\ lastWrite'.d = workers[w].told)]_vars

C16_Witness ==
  /\ cpc = "worker_only"
  /\ lastWrite.via = "timer"
  /\ lastWrite.op = OpHeartbeat
  /\ lastWrite.d = 2
  /\ workers[1].told = 2
  /\ workers[1].queue = <<>>

\* C17: a worker takes its messages oldest first, each handled as it leaves the
\* queue; it checks its timer only when a drain has found the queue empty, so a
\* periodic heartbeat is written only after every message queued before the end
\* of that drain was handled; a drain ended by Aborted or by a disconnected
\* channel is followed by no heartbeat at all, only by the close frame.
C17_DrainBeforeTimer ==
  /\ [][\A w \in WorkerIds :
          (workers[w].pc = "loop" /\ Len(workers'[w].queue) < Len(workers[w].queue)) =>
            /\ workers'[w].queue = Tail(workers[w].queue)
            /\ Head(workers[w].queue).k = "SendMessage"
                 => lastWrite' = Written(workers[w].sender, w, "msg",
                                         Head(workers[w].queue).op,
                                         Head(workers[w].queue).d, Null)
            /\ Head(workers[w].queue).k # "SendMessage" => lastWrite' = NoWrite]_vars
  /\ [][\A w \in WorkerIds :
          (workers'[w].pc = "tick" /\ workers[w].pc # "tick")
            => (workers[w].pc = "loop" /\ workers[w].queue = <<>>)]_vars
  /\ [][\A w \in WorkerIds :
          (lastWrite' # NoWrite /\ lastWrite'.by = w /\ lastWrite'.via = "timer")
            => (workers[w].pc = "tick" /\ workers[w].exit = "none")]_vars
  /\ [][\A w \in WorkerIds :
          workers[w].pc = "tick" =>
            /\ Len(workers'[w].queue) >= Len(workers[w].queue)
            /\ SubSeq(workers'[w].queue, 1, Len(workers[w].queue)) = workers[w].queue
            /\ workers'[w].sender = workers[w].sender
            /\ workers'[w].last_sequence = workers[w].last_sequence
            /\ workers'[w].pc \in {"tick", "loop"}]_vars
  /\ [](\A w \in WorkerIds :
          workers[w].exit # "none" => workers[w].pc \in {"closing", "done"})

C17_Witness ==
  /\ cpc = "worker_only"
  /\ lastWrite.via = "timer"
  /\ workers[1].told = 2
  /\ workers[1].sender = 2
  /\ workers[1].queue = <<Aborted>>

\* C18: a Hello(interval) read by resume() puts ChangeInterval(interval) in the
\* queue of the existing worker, and resume() goes on reading (the session is
\* not restarted).
C18_ResumeHelloChangesInterval ==
  [][(cpc = "resume_read" /\ lastRead'.op = "Hello" /\ ~RxClosed(workers, conn.ch)) =>
       /\ workers' = [workers EXCEPT ![conn.ch].queue =
                        Append(@, ChangeInterval(lastRead'.n))]
       /\ cpc' = "resume_read"
       /\ conn' = conn]_vars

\* C19: a successful resume swaps in the new read half and posts
\* ChangeSenderV2 with the new write half to the same worker; from then on every
\* queued payload the worker writes, those already pending when resume()
\* completed included, goes to the half of the transport the client now reads,
\* and once the worker has handled ChangeSenderV2 it holds that half.
C19_NoCommandLostOnResume ==
  /\ [][(cpc = "resume_read" /\ cpc' = "idle") =>
          /\ conn'.rx = rs.t
          /\ conn'.ch = conn.ch
          /\ Len(workers') = Len(workers)
          /\ ~RxClosed(workers, conn.ch)
               => workers' = [workers EXCEPT ![conn.ch].queue =
                                Append(@, ChangeSenderV2(rs.t))]]_vars
  /\ [][\A w \in WorkerIds :
          (/\ workers[w].pc = "loop"
           /\ workers[w].queue # <<>>
           /\ Head(workers[w].queue).k = "ChangeSenderV2"
           /\ workers'[w].queue = Tail(workers[w].queue))
            => workers'[w].sender = Head(workers[w].queue).d]_vars
  /\ []((lastWrite.via = "msg" /\ lastWrite.by = conn.ch) => lastWrite.t = conn.rx)

\* C20: reading InvalidateSession in recv_event clears session_id and posts
\* exactly one identify payload to the worker, without returning and without
\* writing; a session id appears again only with a completed handshake or
\* resume; a transport error or close met while session_id is None goes to
\* reconnect(), resume() not being entered.
C20_InvalidateThenReconnect ==
  /\ [][(cpc = "recv" /\ lastRead'.op = "InvalidateSession") =>
          /\ conn'.session_id = Null
          /\ cpc' = "recv" /\ ret' = NoRet /\ lastWrite' = NoWrite
          /\ IF RxClosed(workers, conn.ch)
             THEN workers' = workers
             ELSE workers' = [workers EXCEPT ![conn.ch].queue = Append(@, Identify)]]_vars
  /\ [][(conn.session_id = Null /\ conn'.session_id # Null)
          => (cpc \in {"hs_ready", "hs_ready2"} /\ hs'.res = "Ok")]_vars
  /\ []((call.trig \in {"Tungstenite", "Closed"} /\ call.sid0 = Null)
          => (~call.resumed /\ call.reconn /\ call.rserr = "-" /\ ~InResume))

C20_Witness ==
  /\ call.trig = "Tungstenite"
  /\ call.sid0 = Null
  /\ conn.session_id = Null
  /\ ~conn.observed
  /\ rc.abort
  /\ InHandshake
  /\ \E i \in 1 .. Len(workers[conn.ch].queue) : workers[conn.ch].queue[i] = Identify

\* C21: the worker spawned by a handshake that then fails (in connect or in
\* any attempt of reconnect()) is left with no Sender and eventually ends; the
\* worker of a connection that reconnect() replaced was sent Aborted and
\* eventually ends.
C21_NoWorkerLeaked ==
  /\ [](\A w \in WorkerIds :
          (hs.w = w /\ hs.res \notin {"-", "Ok"}) => ~workers[w].txAlive)
  /\ [](\A w \in WorkerIds :
          (rc.abort /\ rc.old = w /\ hs.from = "reconnect" /\ hs.res = "Ok")
            => (conn.ch # w /\ (HasAbort(w) \/ workers[w].exit = "abort")))
  /\ \A w \in 1 .. MaxConns :
       (w \in WorkerIds /\ hs.w = w /\ hs.res \notin {"-", "Ok"})
         ~> (w \in WorkerIds /\ workers[w].pc = "done")
  /\ \A w \in 1 .. MaxConns :
       (w \in WorkerIds /\ rc.abort /\ rc.old = w /\ hs.from = "reconnect" /\ hs.res = "Ok")
         ~> (w \in WorkerIds /\ workers[w].pc = "done")

C21_Witness ==
  /\ Len(workers) = 2
  /\ workers[1].pc = "done" /\ workers[1].exit = "abort"
  /\ workers[2].pc = "done" /\ workers[2].exit = "disconnected"
  /\ rc.abort /\ rc.old = 1 /\ rc.fails = 1
  /\ hs.from = "reconnect" /\ hs.w = 2 /\ hs.res = "Protocol"

\* The other case of C21: reconnect() succeeded and the worker of the
\* connection it replaced has ended.
ReplacedWorkerEnded ==
  /\ Len(workers) = 2
  /\ workers[1].pc = "done" /\ workers[1].exit = "abort"
  /\ rc.abort /\ rc.old = 1
  /\ hs.from = "reconnect" /\ hs.res = "Ok"
  /\ conn.ch = 2

\* C22: whenever reconnect() is about to post Aborted, and whenever shutdown()
\* can be called, the task of the current worker has not ended, so the
\* `expect` on that send never panics.
C22_AbortNeverToEndedWorker ==
  /\ cpc # "panicked"
  /\ cpc \in {"idle", "reconnect_abort"} => ~RxClosed(workers, conn.ch)

\* A worker that can still be reached (a Sender of its channel is left and its
\* task has not ended) and has not been sent Aborted.
Live(w) ==
  /\ workers[w].txAlive
  /\ workers[w].pc # "done"
  /\ ~HasAbort(w)
  /\ workers[w].exit # "abort"

\* C23: at most one worker at a time can still be reached and has not been
\* sent Aborted; a handshake of reconnect() spawns its worker only after
\* Aborted was posted to the old one; a worker writes only on the half it
\* holds, which is the one it was spawned with until it dequeues
\* ChangeSenderV2, so the old worker never writes on a transport opened by
\* reconnect().
C23_OneLiveWorker ==
  /\ [](Cardinality({w \in WorkerIds : Live(w)}) <= 1)
  /\ [][(Len(workers') > Len(workers) /\ hs.from = "reconnect") =>
          /\ rc.abort
          /\ rc.old \in WorkerIds
          /\ HasAbort(rc.old) \/ workers[rc.old].exit = "abort"]_vars
  /\ [][\A w \in WorkerIds :
          /\ (lastWrite' # NoWrite /\ lastWrite'.by = w) => lastWrite'.t = workers[w].sender
          /\ workers'[w].sender # workers[w].sender =>
               /\ workers[w].pc = "loop"
               /\ workers[w].queue # <<>>
               /\ Head(workers[w].queue) = ChangeSenderV2(workers'[w].sender)
               /\ workers'[w].queue = Tail(workers[w].queue)]_vars
  /\ []((rc.abort /\ lastWrite # NoWrite /\ lastWrite.by = rc.old /\ hs.from = "reconnect")
          => lastWrite.t # hs.t)

C23_Witness ==
  /\ Len(workers) = 2
  /\ rc.abort /\ rc.old = 1
  /\ hs.from = "reconnect" /\ hs.w = 2 /\ hs.t = 2
  /\ Live(2)
  /\ workers[1].sender = 1
  /\ lastWrite.by = 1 /\ lastWrite.t = 1
  /\ workers[1].pc = "loop" /\ HasAbort(1)

====
